---- MODULE Spec2Model ----
(***************************************************************************)
(* A model of flatpak-remote-metadata.py: the typed keyfile projection     *)
(* (get_value, metadata_to_dict), the ref selection, the fetch loop of     *)
(* get_apps_metadata and the report writing and signal handling of main.   *)
(*                                                                         *)
(* Python strings that the program inspects (group names, keys, raw        *)
(* values, ref names) are sequences of one-character strings, so that      *)
(* fullmatch, startswith, endswith and split are computed, not assumed.    *)
(***************************************************************************)
EXTENDS Integers, Sequences, FiniteSets, TLC

VARIABLES
    \* ---- the run of main() ----
    args,          \* parsed command line (argparse namespace)
    remoteRefs,    \* what list_remote_refs_sync_full enumerates
    pc,            \* position of main() / get_apps_metadata()
    handlers,      \* TRUE once signal.signal installed abort
    refs,          \* the list `refs` of get_apps_metadata
    idx,           \* 1-based position of the for loop over refs
    ref_root,      \* "none" | "root"
    metadata,      \* the KeyFile of the current ref, or None
    manifest,      \* the manifest of the current ref, or None
    result,        \* the list `result` of main
    out,           \* the configured output sink
    exitCode,      \* process exit status, -1 while running
    failure,       \* which step raised the uncaught exception
    cancelled,     \* Gio.Cancellable state
    pulls,         \* history: pull requests issued
    reads,         \* history: per position, the reads issued
    streams,       \* history: input streams opened by load_ostree_file
    \* ---- the keyfile projection ----
    kf,            \* a loaded GLib.KeyFile
    projected,     \* outcome of metadata_to_dict(kf)
    lastValue      \* outcome of the last get_value(kf, group, key)

runVars == <<args, remoteRefs, pc, handlers, refs, idx, ref_root, metadata,
             manifest, result, out, exitCode, failure, cancelled, pulls,
             reads, streams>>
kfVars == <<kf, projected, lastValue>>
vars == <<args, remoteRefs, pc, handlers, refs, idx, ref_root, metadata,
          manifest, result, out, exitCode, failure, cancelled, pulls,
          reads, streams, kf, projected, lastValue>>

None == [t |-> "None"]

(***************************************************************************)
(* Bounds of the explored inputs.                                          *)
(***************************************************************************)
MaxRefs == 2      \* length of the remote enumeration
MaxGroups == 2    \* groups of a keyfile
MaxKeys == 2      \* keys of each group

\* All sequences over S of length at most n
RECURSIVE SeqsUpTo(_, _)
SeqsUpTo(S, n) ==
    IF n = 0 THEN {<<>>}
    ELSE LET shorter == SeqsUpTo(S, n - 1)
         IN shorter \cup {Append(s, x) : s \in shorter, x \in S}

Range(s) == {s[i] : i \in DOMAIN s}

\* Sequences without repetition (a keyfile never lists a group or key twice)
DistinctSeqsUpTo(S, n) ==
    {s \in SeqsUpTo(S, n) : Cardinality(Range(s)) = Len(s)}

(***************************************************************************)
(* String primitives of Python, on sequences of characters.                *)
(***************************************************************************)
IsSpace(c) == c \in {" ", "\t", "\n", "\r"}

startswith(s, p) ==
    /\ Len(s) >= Len(p)
    /\ SubSeq(s, 1, Len(p)) = p

endswith(s, p) ==
    /\ Len(s) >= Len(p)
    /\ SubSeq(s, Len(s) - Len(p) + 1, Len(s)) = p

\* index of the first position >= i of s that holds (want = TRUE) or does
\* not hold (want = FALSE) a whitespace character; Len(s) + 1 when none
RECURSIVE Scan(_, _, _)
Scan(s, i, want) ==
    IF i > Len(s) THEN Len(s) + 1
    ELSE IF IsSpace(s[i]) = want THEN i
    ELSE Scan(s, i + 1, want)

\* str.split(maxsplit=1): split on runs of whitespace, at most one split
split_maxsplit1(s) ==
    LET a == Scan(s, 1, FALSE)      \* start of the first word
        b == Scan(s, a, TRUE)       \* end of the first word
        c == Scan(s, b, FALSE)      \* start of the remainder
    IN IF a > Len(s) THEN <<>>
       ELSE IF c > Len(s) THEN <<SubSeq(s, a, b - 1)>>
       ELSE <<SubSeq(s, a, b - 1), SubSeq(s, c, Len(s))>>

(***************************************************************************)
(* String literals of the program.                                         *)
(***************************************************************************)
S_Context == <<"C", "o", "n", "t", "e", "x", "t">>
S_ExtensionSp == <<"E", "x", "t", "e", "n", "s", "i", "o", "n", " ">>
S_Extension == <<"E", "x", "t", "e", "n", "s", "i", "o", "n">>
S_ExtensionOf == <<"E", "x", "t", "e", "n", "s", "i", "o", "n", "O", "f">>
S_Application == <<"A", "p", "p", "l", "i", "c", "a", "t", "i", "o", "n">>
S_Runtime == <<"R", "u", "n", "t", "i", "m", "e">>
S_Build == <<"B", "u", "i", "l", "d">>
S_autodelete == <<"a", "u", "t", "o", "d", "e", "l", "e", "t", "e">>
S_no_autodownload == <<"n", "o", "-", "a", "u", "t", "o", "d", "o", "w", "n", "l", "o", "a", "d">>
S_subdirectories == <<"s", "u", "b", "d", "i", "r", "e", "c", "t", "o", "r", "i", "e", "s">>
S_locale_subset == <<"l", "o", "c", "a", "l", "e", "-", "s", "u", "b", "s", "e", "t">>
S_versions == <<"v", "e", "r", "s", "i", "o", "n", "s">>
S_merge_dirs == <<"m", "e", "r", "g", "e", "-", "d", "i", "r", "s">>
S_priority == <<"p", "r", "i", "o", "r", "i", "t", "y">>
S_required_flatpak == <<"r", "e", "q", "u", "i", "r", "e", "d", "-", "f", "l", "a", "t", "p", "a", "k">>
S_tags == <<"t", "a", "g", "s">>
S_built_extensions == <<"b", "u", "i", "l", "t", "-", "e", "x", "t", "e", "n", "s", "i", "o", "n", "s">>
S_dotSources == <<".", "S", "o", "u", "r", "c", "e", "s">>
S_dotLocale == <<".", "L", "o", "c", "a", "l", "e">>
S_dotDebug == <<".", "D", "e", "b", "u", "g">>
S_true == <<"t", "r", "u", "e">>
S_false == <<"f", "a", "l", "s", "e">>
S_1 == <<"1">>
S_0 == <<"0">>

(***************************************************************************)
(* Regular expressions (module re), as syntax trees.  Ends(re, s, i) is    *)
(* the set of positions j such that re matches s[i..j-1].                  *)
(***************************************************************************)
Lit(s) == [op |-> "lit", s |-> s]
Cat(a, b) == [op |-> "cat", a |-> a, b |-> b]
Alt(a, b) == [op |-> "alt", a |-> a, b |-> b]
Star(c) == [op |-> "star", c |-> c]
Plus(c) == [op |-> "plus", c |-> c]

\* character classes: "." (any character but a newline) and "\S"
InClass(ch, c) ==
    IF c = "nonspace" THEN ~IsSpace(ch)
    ELSE ch # "\n"

RECURSIVE Ends(_, _, _)
Ends(re, s, i) ==
    CASE re.op = "lit" ->
            IF /\ i + Len(re.s) - 1 <= Len(s)
               /\ SubSeq(s, i, i + Len(re.s) - 1) = re.s
            THEN {i + Len(re.s)} ELSE {}
      [] re.op = "cat" -> UNION {Ends(re.b, s, j) : j \in Ends(re.a, s, i)}
      [] re.op = "alt" -> Ends(re.a, s, i) \cup Ends(re.b, s, i)
      [] re.op = "star" ->
            {j \in i..(Len(s) + 1) : \A k \in i..(j - 1) : InClass(s[k], re.c)}
      [] re.op = "plus" ->
            {j \in (i + 1)..(Len(s) + 1) :
                \A k \in i..(j - 1) : InClass(s[k], re.c)}

\* Pattern.match: the pattern matches some prefix of s (the slip of using
\* match where fullmatch is meant)
prefixmatch(re, s) == Ends(re, s, 1) # {}

\* Pattern.fullmatch: the pattern matches the whole of s
fullmatch(re, s) == (Len(s) + 1) \in Ends(re, s, 1)

\* the rule table, in source order
MEATADATA_TYPES == <<
    [g |-> Lit(S_Context), k |-> Star("any"), cls |-> "list"],
    [g |-> Cat(Lit(S_ExtensionSp), Plus("nonspace")), k |-> Lit(S_autodelete), cls |-> "bool"],
    [g |-> Cat(Lit(S_ExtensionSp), Plus("nonspace")), k |-> Lit(S_no_autodownload), cls |-> "bool"],
    [g |-> Cat(Lit(S_ExtensionSp), Plus("nonspace")), k |-> Lit(S_subdirectories), cls |-> "bool"],
    [g |-> Cat(Lit(S_ExtensionSp), Plus("nonspace")), k |-> Lit(S_locale_subset), cls |-> "bool"],
    [g |-> Cat(Lit(S_ExtensionSp), Plus("nonspace")), k |-> Lit(S_versions), cls |-> "list"],
    [g |-> Cat(Lit(S_ExtensionSp), Plus("nonspace")), k |-> Lit(S_merge_dirs), cls |-> "list"],
    [g |-> Lit(S_ExtensionOf), k |-> Lit(S_priority), cls |-> "int"],
    [g |-> Alt(Lit(S_Application), Lit(S_Runtime)), k |-> Lit(S_required_flatpak), cls |-> "list"],
    [g |-> Alt(Lit(S_Application), Lit(S_Runtime)), k |-> Lit(S_tags), cls |-> "list"],
    [g |-> Lit(S_Build), k |-> Lit(S_built_extensions), cls |-> "list"] >>

(***************************************************************************)
(* GLib.KeyFile.  A keyfile is [t |-> "KeyFile", groups |-> sequence of   *)
(* [name, entries]], entries a sequence of [key, raw].                     *)
(***************************************************************************)
get_groups(m) == [i \in DOMAIN m.groups |-> m.groups[i].name]

GroupOf(m, group) ==
    m.groups[CHOOSE i \in DOMAIN m.groups : m.groups[i].name = group]

get_keys(m, group) ==
    LET e == GroupOf(m, group).entries IN [i \in DOMAIN e |-> e[i].key]

RawValue(m, group, key) ==
    LET e == GroupOf(m, group).entries
    IN e[CHOOSE i \in DOMAIN e : e[i].key = key].raw

Digits == {"0", "1", "2", "3", "4", "5", "6", "7", "8", "9"}

DigitVal(c) ==
    CASE c = "0" -> 0 [] c = "1" -> 1 [] c = "2" -> 2 [] c = "3" -> 3
      [] c = "4" -> 4 [] c = "5" -> 5 [] c = "6" -> 6 [] c = "7" -> 7
      [] c = "8" -> 8 [] c = "9" -> 9

RECURSIVE DecimalVal(_)
DecimalVal(s) ==
    IF s = <<>> THEN 0
    ELSE 10 * DecimalVal(SubSeq(s, 1, Len(s) - 1)) + DigitVal(s[Len(s)])

\* pieces of s separated by ";" (a trailing piece without separator counts)
RECURSIVE SplitList(_, _, _)
SplitList(s, i, cur) ==
    IF i > Len(s) THEN (IF cur = <<>> THEN <<>> ELSE <<cur>>)
    ELSE IF s[i] = ";" THEN <<cur>> \o SplitList(s, i + 1, <<>>)
    ELSE SplitList(s, i + 1, Append(cur, s[i]))

get_boolean(m, group, key) ==
    LET raw == RawValue(m, group, key)
    IN IF raw \in {S_true, S_1} THEN [t |-> "val", kind |-> "bool", b |-> TRUE]
       ELSE IF raw \in {S_false, S_0}
            THEN [t |-> "val", kind |-> "bool", b |-> FALSE]
       ELSE [t |-> "err", kind |-> "bool", err |-> "INVALID_VALUE"]

get_integer(m, group, key) ==
    LET raw == RawValue(m, group, key)
    IN IF raw # <<>> /\ \A i \in DOMAIN raw : raw[i] \in Digits
       THEN [t |-> "val", kind |-> "int", n |-> DecimalVal(raw)]
       ELSE [t |-> "err", kind |-> "int", err |-> "INVALID_VALUE"]

get_string_list(m, group, key) ==
    [t |-> "val", kind |-> "list", l |-> SplitList(RawValue(m, group, key), 1, <<>>)]

get_string(m, group, key) ==
    [t |-> "val", kind |-> "str", s |-> RawValue(m, group, key)]

\* the for loop of get_value, from rule i on
RECURSIVE get_value_from(_, _, _, _)
get_value_from(i, m, group, key) ==
    IF i > Len(MEATADATA_TYPES) THEN get_string(m, group, key)
    ELSE LET r == MEATADATA_TYPES[i]
         IN IF fullmatch(r.g, group) /\ fullmatch(r.k, key)
            THEN CASE r.cls = "bool" -> get_boolean(m, group, key)
                   [] r.cls = "list" -> get_string_list(m, group, key)
                   [] r.cls = "int" -> get_integer(m, group, key)
                   [] OTHER -> get_value_from(i + 1, m, group, key)
            ELSE get_value_from(i + 1, m, group, key)

get_value(m, group, key) == get_value_from(1, m, group, key)

(***************************************************************************)
(* metadata_to_dict.  A dict is [t |-> "dict", d |-> function]; the        *)
(* outcome is [status |-> "ok", result |-> function] or an error.          *)
(***************************************************************************)
EmptyDict == [t |-> "dict", d |-> <<>>]

setdefault(d, k, v) == IF k \in DOMAIN d THEN d ELSE (k :> v) @@ d

setitem(d, k, v) == (k :> v) @@ d

\* the (group, key) pairs in the order the nested loops visit them
RECURSIVE PairsFrom(_, _)
PairsFrom(m, i) ==
    IF i > Len(get_groups(m)) THEN <<>>
    ELSE LET group == get_groups(m)[i]
             keys == get_keys(m, group)
         IN [j \in DOMAIN keys |-> <<group, keys[j]>>] \o PairsFrom(m, i + 1)

\* one execution of the loop body (lines 81-87) on dict `res`
ProjectEntry(m, res, group, key) ==
    IF startswith(group, S_ExtensionSp)
    THEN LET parts == split_maxsplit1(group)
         IN IF Len(parts) # 2
            THEN [status |-> "error", err |-> "ValueError"]
            ELSE LET extension_id == parts[2]
                     r1 == setdefault(res, S_Extension, EmptyDict)
                     parent == setdefault(r1[S_Extension].d, extension_id, EmptyDict)
                     result_group == parent[extension_id]
                     value == get_value(m, group, key)
                 IN IF value.t = "err"
                    THEN [status |-> "error", err |-> "GLib.Error"]
                    ELSE IF result_group.t # "dict"
                    THEN [status |-> "error", err |-> "TypeError"]
                    ELSE [status |-> "ok",
                          result |-> setitem(r1, S_Extension,
                            [t |-> "dict",
                             d |-> setitem(parent, extension_id,
                                     [t |-> "dict",
                                      d |-> setitem(result_group.d, key, value)])])]
    ELSE LET r1 == setdefault(res, group, EmptyDict)
             value == get_value(m, group, key)
         IN IF value.t = "err"
            THEN [status |-> "error", err |-> "GLib.Error"]
            ELSE [status |-> "ok",
                  result |-> setitem(r1, group,
                    [t |-> "dict", d |-> setitem(r1[group].d, key, value)])]

RECURSIVE ProjectFrom(_, _, _, _)
ProjectFrom(m, pairs, i, res) ==
    IF i > Len(pairs) THEN [status |-> "ok", result |-> res]
    ELSE LET step == ProjectEntry(m, res, pairs[i][1], pairs[i][2])
         IN IF step.status = "ok"
            THEN ProjectFrom(m, pairs, i + 1, step.result)
            ELSE step

metadata_to_dict(m) ==
    IF m.t = "None" THEN None
    ELSE ProjectFrom(m, PairsFrom(m, 1), 1, <<>>)

(***************************************************************************)
(* The keyfiles explored: distinct groups, each holding the same distinct  *)
(* keys and the same raw value.                                            *)
(***************************************************************************)
G_Contexts == <<"C", "o", "n", "t", "e", "x", "t", "s">>
G_Extension_org_foo == <<"E", "x", "t", "e", "n", "s", "i", "o", "n", " ", "o", "r", "g", ".", "f", "o", "o">>
K_org_foo == <<"o", "r", "g", ".", "f", "o", "o">>
K_tagsx == <<"t", "a", "g", "s", "x">>
V_7 == <<"7">>
V_a_b == <<"a", ";", "b">>

GroupUniverse ==
    {S_Context, G_Contexts, G_Extension_org_foo, S_Extension, S_ExtensionOf,
     S_Application}

KeyUniverse == {S_autodelete, S_priority, S_tags, K_tagsx, K_org_foo}

RawUniverse == {S_true, V_7, V_a_b}

KeyFiles ==
    {[t |-> "KeyFile",
      groups |-> [i \in DOMAIN gs |->
        [name |-> gs[i],
         entries |-> [j \in DOMAIN ks |-> [key |-> ks[j], raw |-> raw]]]]] :
        gs \in DistinctSeqsUpTo(GroupUniverse, MaxGroups),
        ks \in DistinctSeqsUpTo(KeyUniverse, MaxKeys),
        raw \in RawUniverse}


(***************************************************************************)
(* The command line and the remote.                                        *)
(***************************************************************************)
N_org_foo == <<"o", "r", "g", ".", "f", "o", "o">>
N_org_foo_Locale == <<"o", "r", "g", ".", "f", "o", "o", ".", "L", "o", "c", "a", "l", "e">>
N_org_foo_SourcesX == <<"o", "r", "g", ".", "f", "o", "o", ".", "S", "o", "u", "r", "c", "e", "s", "X">>
N_org_bar_Debug == <<"o", "r", "g", ".", "b", "a", "r", ".", "D", "e", "b", "u", "g">>
N_org_bar_Sources == <<"o", "r", "g", ".", "b", "a", "r", ".", "S", "o", "u", "r", "c", "e", "s">>

\* a Flatpak.RemoteRef; eol and eol_rebase are "" when unset
Ref(name, arch, branch, eol, eol_rebase) ==
    [kind |-> "app", name |-> name, arch |-> arch, branch |-> branch,
     eol |-> eol, eol_rebase |-> eol_rebase]

R_app == Ref(N_org_foo, "x86_64", "stable", "", "")
R_locale == Ref(N_org_foo_Locale, "x86_64", "stable", "", "")
R_srcx == Ref(N_org_foo_SourcesX, "x86_64", "stable", "", "")
R_arm == Ref(N_org_foo, "aarch64", "stable", "", "")
R_eol == Ref(N_org_foo, "x86_64", "1.0", "gone", "")
R_rebase == Ref(N_org_foo, "x86_64", "2.0", "", "org.new")
R_debug == Ref(N_org_bar_Debug, "x86_64", "stable", "", "")
R_sources == Ref(N_org_bar_Sources, "x86_64", "stable", "", "")

RefUniverse ==
    {R_app, R_locale, R_srcx, R_arm, R_eol, R_rebase, R_debug, R_sources}

\* Flatpak.Ref.format_ref: kind/name/arch/branch, kept as its four parts
format_ref(ref) == <<ref.kind, ref.name, ref.arch, ref.branch>>

\* argparse namespaces explored; ref = <<>> and output = "" stand for None
ArgsSet ==
    [ref : {<<>>, <<format_ref(R_app), format_ref(R_eol)>>},
     no_pull : BOOLEAN, no_metadata : BOOLEAN, no_manifest : BOOLEAN,
     no_built_extensions : BOOLEAN,
     output : {"", "report.json"}]

\* the options with line 219 losing its negation
Options_Inverted(a) ==
    [refs |-> a.ref,
     pull |-> ~a.no_pull,
     get_metadata |-> ~a.no_metadata,
     get_manifest |-> ~a.no_manifest,
     get_built_extensions |-> a.no_built_extensions]

Options(a) ==
    [refs |-> a.ref,
     pull |-> ~a.no_pull,
     get_metadata |-> ~a.no_metadata,
     get_manifest |-> ~a.no_manifest,
     get_built_extensions |-> ~a.no_built_extensions]

opts == Options(args)

is_built_extension(app_id) ==
    \/ endswith(app_id, S_dotSources)
    \/ endswith(app_id, S_dotLocale)
    \/ endswith(app_id, S_dotDebug)

\* the selection with line 135 testing both end-of-life flags at once
Skipped_EolAnd(ref, o) ==
    \/ o.refs # <<>> /\ format_ref(ref) \notin Range(o.refs)
    \/ ref.arch # "x86_64"
    \/ ref.eol # "" /\ ref.eol_rebase # ""
    \/ ~o.get_built_extensions /\ is_built_extension(ref.name)

\* the four `continue` tests of the selection loop
Skipped(ref, o) ==
    \/ o.refs # <<>> /\ format_ref(ref) \notin Range(o.refs)
    \/ ref.arch # "x86_64"
    \/ ref.eol # "" \/ ref.eol_rebase # ""
    \/ ~o.get_built_extensions /\ is_built_extension(ref.name)

\* the loop over the enumeration, from position i on
RECURSIVE SelectFrom(_, _, _)
SelectFrom(all, i, o) ==
    IF i > Len(all) THEN <<>>
    ELSE IF Skipped(all[i], o) THEN SelectFrom(all, i + 1, o)
    ELSE <<all[i]>> \o SelectFrom(all, i + 1, o)

(***************************************************************************)
(* load_ostree_file, by what the content store does:                       *)
(*   ok              every call succeeds                                   *)
(*   query_not_found query_info raises NOT_FOUND                           *)
(*   query_error     query_info raises another error                       *)
(*   open_error      repo_file.read raises                                 *)
(*   read_error      stream.read_bytes raises                              *)
(*   close_error     stream.close raises (GIO still closes the stream)     *)
(***************************************************************************)
LoadOutcomes ==
    {"ok", "query_not_found", "query_error", "open_error", "read_error",
     "close_error"}

load_ostree_file(o) ==
    CASE o = "ok" -> [status |-> "ok", opened |-> 1, closed |-> 1]
      [] o = "query_not_found" ->
            [status |-> "NOT_FOUND", opened |-> 0, closed |-> 0]
      [] o = "query_error" -> [status |-> "error", opened |-> 0, closed |-> 0]
      [] o = "open_error" -> [status |-> "error", opened |-> 0, closed |-> 0]
      [] o = "read_error" -> [status |-> "error", opened |-> 1, closed |-> 0]
      [] o = "close_error" -> [status |-> "error", opened |-> 1, closed |-> 1]

\* the chunks json.dump hands to the sink, one after the other
Chunks(res) ==
    IF res = <<>> THEN <<[t |-> "[]"]>>
    ELSE <<[t |-> "["]>> \o [i \in DOMAIN res |-> [t |-> "entry", e |-> res[i]]]
         \o <<[t |-> "]"]>>


(***************************************************************************)
(* The run of main().                                                      *)
(***************************************************************************)
NoOutput == [touched |-> FALSE, content |-> <<>>]

NoReads ==
    [commit |-> 0, metadata |-> 0, manifest |-> 0, root |-> "", mf |-> ""]

KfIdle ==
    /\ kf = None
    /\ projected = None
    /\ lastValue = None

Init ==
    /\ args \in ArgsSet
    /\ remoteRefs \in SeqsUpTo(RefUniverse, MaxRefs)   \* repetitions included
    /\ pc = "handlers"
    /\ handlers = FALSE
    /\ refs = <<>>
    /\ idx = 1
    /\ ref_root = "none"
    /\ metadata = None
    /\ manifest = None
    /\ result = <<>>
    /\ out = NoOutput
    /\ exitCode = -1
    /\ failure = ""
    /\ cancelled = FALSE
    /\ pulls = <<>>
    /\ reads = <<>>
    /\ streams = [opened |-> 0, closed |-> 0]
    /\ KfIdle

\* an uncaught exception reaches the top level: traceback, exit status 1
Raise(stage) ==
    /\ pc' = "failed"
    /\ failure' = stage
    /\ exitCode' = 1

\* where the for loop of main goes when the generator is at position i
LoopAt(i) == IF i > Len(refs) THEN "open_output" ELSE "read_commit"

\* lines 223-231
InstallHandlers ==
    /\ pc = "handlers"
    /\ handlers' = TRUE
    /\ pc' = "setup"
    /\ UNCHANGED <<args, remoteRefs, refs, idx, ref_root, metadata, manifest,
                   result, out, exitCode, failure, cancelled, pulls, reads,
                   streams, kf, projected, lastValue>>

\* lines 233-248: installation directory and remote lookup or registration
Setup ==
    /\ pc = "setup"
    /\ \E o \in {"ok", "error"} :
          IF o = "ok"
          THEN pc' = "open_repo" /\ UNCHANGED <<failure, exitCode>>
          ELSE Raise("setup")
    /\ UNCHANGED <<args, remoteRefs, handlers, refs, idx, ref_root, metadata,
                   manifest, result, out, cancelled, pulls, reads, streams,
                   kf, projected, lastValue>>

\* lines 123-139: open the repository, enumerate and select the refs
ListRefs ==
    /\ pc = "open_repo"
    /\ \E o \in {"ok", "error"} :
          IF o = "ok"
          THEN /\ refs' = SelectFrom(remoteRefs, 1, opts)
               /\ reads' = [i \in DOMAIN refs' |-> NoReads]
               /\ pc' = "pull"
               /\ UNCHANGED <<failure, exitCode>>
          ELSE /\ Raise("list_refs")
               /\ UNCHANGED <<refs, reads>>
    /\ UNCHANGED <<args, remoteRefs, handlers, idx, ref_root, metadata,
                   manifest, result, out, cancelled, pulls, streams,
                   kf, projected, lastValue>>

\* the subpaths with line 143 dropped
pull_files_Always(o) == <<"/metadata", "/files/manifest.json">>

\* lines 142-144
pull_files(o) ==
    IF o.get_manifest THEN <<"/metadata", "/files/manifest.json">>
    ELSE <<"/metadata">>

\* lines 141-160
Pull ==
    /\ pc = "pull"
    /\ IF opts.pull
       THEN \E o \in {"ok", "error"} :
              /\ pulls' = Append(pulls,
                    [refs |-> [i \in DOMAIN refs |-> format_ref(refs[i])],
                     subdirs |-> pull_files(opts),
                     status |-> o])
              /\ IF o = "ok"
                 THEN pc' = LoopAt(1) /\ UNCHANGED <<failure, exitCode>>
                 ELSE Raise("pull")
       ELSE /\ pc' = LoopAt(1)
            /\ UNCHANGED <<pulls, failure, exitCode>>
    /\ UNCHANGED <<args, remoteRefs, handlers, refs, idx, ref_root, metadata,
                   manifest, result, out, cancelled, reads, streams,
                   kf, projected, lastValue>>

\* the handler of line 167 recovering from every GLib.Error
matches_any_error(err) == TRUE

\* line 168: err.matches(Gio.io_error_quark(), Gio.IOErrorEnum.NOT_FOUND)
matches_not_found(err) == err = "NOT_FOUND"

\* lines 163-172
ReadCommit ==
    /\ pc = "read_commit"
    /\ \E o \in {"ok", "NOT_FOUND", "error"} :
          /\ reads' = [reads EXCEPT ![idx].commit = @ + 1, ![idx].root = o]
          /\ IF o = "ok"
             THEN /\ ref_root' = "root"
                  /\ pc' = "metadata"
                  /\ UNCHANGED <<failure, exitCode>>
             ELSE IF matches_not_found(o)
             THEN /\ ref_root' = "none"
                  /\ pc' = "metadata"
                  /\ UNCHANGED <<failure, exitCode>>
             ELSE /\ Raise("read_commit")
                  /\ UNCHANGED ref_root
    /\ UNCHANGED <<args, remoteRefs, handlers, refs, idx, metadata, manifest,
                   result, out, cancelled, pulls, streams,
                   kf, projected, lastValue>>

\* lines 174-182
LoadMetadata ==
    /\ pc = "metadata"
    /\ IF opts.get_metadata
       THEN IF ref_root # "none"
            THEN \E o \in LoadOutcomes, p \in {"ok", "parse_error"} :
                   LET r == load_ostree_file(o)
                   IN /\ reads' = [reads EXCEPT ![idx].metadata = @ + 1]
                      /\ streams' = [opened |-> streams.opened + r.opened,
                                      closed |-> streams.closed + r.closed]
                      /\ IF r.status = "ok" /\ p = "ok"
                         THEN /\ metadata' = [t |-> "KeyFile", src |-> "local",
                                              ref |-> format_ref(refs[idx])]
                              /\ pc' = "manifest"
                              /\ UNCHANGED <<failure, exitCode>>
                         ELSE /\ r.status = "ok" \/ p = "ok"
                              /\ Raise(IF r.status = "ok" THEN "keyfile"
                                       ELSE "metadata")
                              /\ UNCHANGED metadata
            ELSE \E p \in {"ok", "parse_error"} :
                   /\ UNCHANGED <<reads, streams>>
                   /\ IF p = "ok"
                      THEN /\ metadata' = [t |-> "KeyFile", src |-> "embedded",
                                           ref |-> format_ref(refs[idx])]
                           /\ pc' = "manifest"
                           /\ UNCHANGED <<failure, exitCode>>
                      ELSE /\ Raise("keyfile")
                           /\ UNCHANGED metadata
       ELSE /\ metadata' = None
            /\ pc' = "manifest"
            /\ UNCHANGED <<reads, streams, failure, exitCode>>
    /\ UNCHANGED <<args, remoteRefs, handlers, refs, idx, ref_root, manifest,
                   result, out, cancelled, pulls, kf, projected, lastValue>>

\* line 184 without the built-extension test
wants_manifest_NoExtCheck(o, root, ref) ==
    /\ o.get_manifest
    /\ root # "none"

\* line 184: the condition under which the manifest is looked up
wants_manifest(o, root, ref) ==
    /\ o.get_manifest
    /\ root # "none"
    /\ ~is_built_extension(ref.name)

\* lines 184-195
LoadManifest ==
    /\ pc = "manifest"
    /\ IF wants_manifest(opts, ref_root, refs[idx])
       THEN \E o \in LoadOutcomes, j \in {"object", "null", "parse_error"} :
              LET r == load_ostree_file(o)
              IN /\ streams' = [opened |-> streams.opened + r.opened,
                                 closed |-> streams.closed + r.closed]
                 /\ CASE r.status = "ok" ->
                           /\ reads' = [reads EXCEPT ![idx].manifest = @ + 1,
                                                     ![idx].mf = j]
                           /\ (CASE j = "object" ->
                                     /\ manifest' = [t |-> "json",
                                                     ref |-> format_ref(refs[idx])]
                                     /\ pc' = "yield"
                                     /\ UNCHANGED <<failure, exitCode>>
                                [] j = "null" ->
                                     /\ manifest' = None
                                     /\ pc' = "yield"
                                     /\ UNCHANGED <<failure, exitCode>>
                                [] j = "parse_error" ->
                                     /\ Raise("json")
                                     /\ UNCHANGED manifest)
                      [] matches_not_found(r.status) ->
                           /\ j = "object"
                           /\ reads' = [reads EXCEPT ![idx].manifest = @ + 1,
                                                     ![idx].mf = "NOT_FOUND"]
                           /\ manifest' = None
                           /\ pc' = "yield"
                           /\ UNCHANGED <<failure, exitCode>>
                      [] OTHER ->
                           /\ j = "object"
                           /\ reads' = [reads EXCEPT ![idx].manifest = @ + 1,
                                                     ![idx].mf = "error"]
                           /\ Raise("manifest")
                           /\ UNCHANGED manifest
       ELSE /\ manifest' = None
            /\ pc' = "yield"
            /\ UNCHANGED <<reads, streams, failure, exitCode>>
    /\ UNCHANGED <<args, remoteRefs, handlers, refs, idx, ref_root, metadata,
                   result, out, cancelled, pulls, kf, projected, lastValue>>

\* the loop of main writing each entry to the sink as soon as it is built
AppendEntry_Streaming ==
    /\ pc = "yield"
    /\ \E o \in {"ok", "error"} :
          IF o = "ok"
          THEN /\ result' = Append(result,
                     [ref |-> format_ref(refs[idx]),
                      metadata |-> metadata,
                      manifest |-> manifest])
               /\ out' = [touched |-> TRUE,
                          content |-> Append(out.content,
                             [t |-> "entry", e |-> result'[Len(result')]])]
               /\ idx' = idx + 1
               /\ pc' = LoopAt(idx + 1)
               /\ UNCHANGED <<failure, exitCode>>
          ELSE /\ metadata # None
               /\ Raise("projection")
               /\ UNCHANGED <<result, idx, out>>
    /\ UNCHANGED <<args, remoteRefs, handlers, refs, ref_root, metadata,
                   manifest, cancelled, pulls, reads, streams,
                   kf, projected, lastValue>>

\* lines 197 and 252-257: the entry is yielded, projected and appended;
\* the projection of a keyfile may raise (typed accessor failure)
AppendEntry ==
    /\ pc = "yield"
    /\ \E o \in {"ok", "error"} :
          IF o = "ok"
          THEN /\ result' = Append(result,
                     [ref |-> format_ref(refs[idx]),
                      metadata |-> metadata,
                      manifest |-> manifest])
               /\ idx' = idx + 1
               /\ pc' = LoopAt(idx + 1)
               /\ UNCHANGED <<failure, exitCode>>
          ELSE /\ metadata # None
               /\ Raise("projection")
               /\ UNCHANGED <<result, idx>>
    /\ UNCHANGED <<args, remoteRefs, handlers, refs, ref_root, metadata,
                   manifest, out, cancelled, pulls, reads, streams,
                   kf, projected, lastValue>>

\* lines 259-260: open(args.output, "w") creates or truncates the file
OpenOutput ==
    /\ pc = "open_output"
    /\ IF args.output # ""
       THEN \E o \in {"ok", "error"} :
              IF o = "ok"
              THEN /\ out' = [touched |-> TRUE, content |-> <<>>]
                   /\ pc' = "dump"
                   /\ UNCHANGED <<failure, exitCode>>
              ELSE /\ Raise("open_output")
                   /\ UNCHANGED out
       ELSE /\ pc' = "dump"
            /\ UNCHANGED <<out, failure, exitCode>>
    /\ UNCHANGED <<args, remoteRefs, handlers, refs, idx, ref_root, metadata,
                   manifest, result, cancelled, pulls, reads, streams,
                   kf, projected, lastValue>>

\* lines 261 and 263: json.dump writes the next chunk of the report, or the
\* write raises and what was written so far stays in the sink
Dump ==
    /\ pc = "dump"
    /\ \E o \in {"ok", "error"} :
          IF o = "ok"
          THEN LET n == Len(out.content) + 1
               IN /\ out' = [touched |-> TRUE,
                             content |-> Append(out.content, Chunks(result)[n])]
                  /\ pc' = IF n = Len(Chunks(result)) THEN "exit" ELSE "dump"
                  /\ UNCHANGED <<failure, exitCode>>
          ELSE /\ Raise("write")
               /\ UNCHANGED out
    /\ UNCHANGED <<args, remoteRefs, handlers, refs, idx, ref_root, metadata,
                   manifest, result, cancelled, pulls, reads, streams,
                   kf, projected, lastValue>>

\* main returns
Exit ==
    /\ pc = "exit"
    /\ pc' = "done"
    /\ exitCode' = 0
    /\ UNCHANGED <<args, remoteRefs, handlers, refs, idx, ref_root, metadata,
                   manifest, result, out, failure, cancelled, pulls, reads,
                   streams, kf, projected, lastValue>>

\* lines 225-228: the handler runs between two steps of the interpreter
abort ==
    /\ handlers
    /\ pc \notin {"done", "failed", "aborted"}
    /\ cancelled' = TRUE
    /\ exitCode' = 1
    /\ pc' = "aborted"
    /\ UNCHANGED <<args, remoteRefs, handlers, refs, idx, ref_root, metadata,
                   manifest, result, out, failure, pulls, reads, streams,
                   kf, projected, lastValue>>

Next ==
    \/ InstallHandlers
    \/ Setup
    \/ ListRefs
    \/ Pull
    \/ ReadCommit
    \/ LoadMetadata
    \/ LoadManifest
    \/ AppendEntry
    \/ OpenOutput
    \/ Dump
    \/ Exit
    \/ abort

Spec == Init /\ [][Next]_vars

(***************************************************************************)
(* The projection on its own: a keyfile is loaded, get_value is applied    *)
(* to its entries and metadata_to_dict to the whole of it.                 *)
(***************************************************************************)
RunIdle ==
    /\ args = None
    /\ remoteRefs = <<>>
    /\ pc = "idle"
    /\ handlers = FALSE
    /\ refs = <<>>
    /\ idx = 1
    /\ ref_root = "none"
    /\ metadata = None
    /\ manifest = None
    /\ result = <<>>
    /\ out = NoOutput
    /\ exitCode = -1
    /\ failure = ""
    /\ cancelled = FALSE
    /\ pulls = <<>>
    /\ reads = <<>>
    /\ streams = [opened |-> 0, closed |-> 0]

InitKF ==
    /\ RunIdle
    /\ kf \in KeyFiles
    /\ projected = None
    /\ lastValue = None

GetValue ==
    /\ pc = "idle"
    /\ projected = None
    /\ lastValue = None
    /\ \E i \in DOMAIN PairsFrom(kf, 1) :
          LET p == PairsFrom(kf, 1)[i]
          IN lastValue' = [t |-> "value", group |-> p[1], key |-> p[2],
                           value |-> get_value(kf, p[1], p[2])]
    /\ UNCHANGED <<runVars, kf, projected>>

Project ==
    /\ pc = "idle"
    /\ projected = None
    /\ lastValue = None
    /\ projected' = metadata_to_dict(kf)
    /\ UNCHANGED <<runVars, kf, lastValue>>

NextKF ==
    \/ GetValue
    \/ Project

SpecKF == InitKF /\ [][NextKF]_vars


(***************************************************************************)
(* Properties.                                                             *)
(***************************************************************************)
\* the ref names of the explored remote that end in .Sources, .Locale or
\* .Debug, listed by hand
BuiltNames == {N_org_foo_Locale, N_org_bar_Debug, N_org_bar_Sources}

ReportRefs == [i \in DOMAIN result |-> result[i].ref]

\* the three selection predicates that do not concern built extensions
PassesOtherFilters(ref) ==
    /\ args.ref # <<>> => format_ref(ref) \in Range(args.ref)
    /\ ref.arch = "x86_64"
    /\ ref.eol = "" /\ ref.eol_rebase = ""

Survives(ref) ==
    /\ PassesOtherFilters(ref)
    /\ args.no_built_extensions => ref.name \notin BuiltNames

\* C1: on a run that completes, the "ref" strings of the report are the
\* formatted refs of the enumeration's sub-sequence of refs satisfying all
\* four predicates, in enumeration order, with nothing merged or moved.
C1_ReportIsFilteredEnumeration ==
    pc \in {"exit", "done"} =>
        LET kept == SelectSeq(remoteRefs, Survives)
        IN ReportRefs = [i \in DOMAIN kept |-> format_ref(kept[i])]

\* C1 witness: a completed run whose enumeration of two refs loses one
C1_Witness ==
    /\ pc = "done"
    /\ Len(remoteRefs) = 2
    /\ Len(result) = 1
    /\ remoteRefs[1] = R_eol
    /\ result[1].ref = format_ref(R_app)

\* C2: a signal after the handlers are installed ends the process with a
\* non-zero status and nothing, complete or partial, written to the sink.
C2_SignalLeavesNoOutput ==
    pc = "aborted" => exitCode # 0 /\ out = NoOutput

\* the steps that process refs: pull, root resolution, metadata read,
\* keyfile parse, projection, manifest read, JSON parse
ProcessingFailures ==
    {"pull", "read_commit", "metadata", "keyfile", "projection", "manifest",
     "json"}

\* C3: a failure while processing the refs ends the run with a non-zero
\* exit and the output sink untouched: not created, not truncated, no entry.
C3_FailureLeavesOutputUntouched ==
    (pc = "failed" /\ failure \in ProcessingFailures) =>
        exitCode # 0 /\ out = NoOutput

\* C3 witness: the manifest read of the second ref fails after the first
\* ref's entry was built
C3_Witness ==
    /\ pc = "failed"
    /\ failure = "manifest"
    /\ Len(result) = 1
    /\ idx = 2
    /\ args.output # ""

\* C4 as stated: with --no-built-extensions the built-extension refs are in
\* the report, without it they are not.
C4_FlagIncludesBuiltExtensions ==
    pc = "done" =>
        \A i \in DOMAIN remoteRefs :
            (remoteRefs[i].name \in BuiltNames /\ PassesOtherFilters(remoteRefs[i]))
            => (args.no_built_extensions
                  <=> format_ref(remoteRefs[i]) \in Range(ReportRefs))

\* C4 amended: with --no-built-extensions no ref whose name ends in
\* .Sources, .Locale or .Debug is in the report; without the flag every such
\* ref that passes the other three filters is in the report.
C4_FlagExcludesBuiltExtensions ==
    pc = "done" =>
        /\ args.no_built_extensions =>
              \A k \in DOMAIN result : result[k].ref[2] \notin BuiltNames
        /\ ~args.no_built_extensions =>
              \A i \in DOMAIN remoteRefs :
                 (remoteRefs[i].name \in BuiltNames
                    /\ PassesOtherFilters(remoteRefs[i]))
                 => format_ref(remoteRefs[i]) \in Range(ReportRefs)

\* C4 witness: a completed run with the flag, a .Locale ref next to a plain
\* one, and only the plain one reported
C4_Witness ==
    /\ pc = "done"
    /\ args.no_built_extensions
    /\ args.ref = <<>>
    /\ remoteRefs = <<R_locale, R_app>>
    /\ ReportRefs = <<format_ref(R_app)>>


\* a group name made of "Extension ", then an identifier without whitespace
IsExtensionGroup(g) ==
    /\ Len(g) > 10
    /\ SubSeq(g, 1, 10) = S_ExtensionSp
    /\ \A i \in 11..Len(g) : g[i] \notin {" ", "\t", "\n"}

ExtensionIdOf(g) == SubSeq(g, 11, Len(g))

\* every value of dict node n is a typed value, none a nested mapping
IsFlat(n) ==
    /\ n.t = "dict"
    /\ \A k \in DOMAIN n.d : n.d[k].t = "val"

\* C5: every key of an "Extension <id>" group is at
\* result["Extension"][id][key], every key of another group at
\* result[group][key]; every value directly under result["Extension"] is a
\* flat mapping of one extension, every other top-level value a flat mapping.
C5_ProjectionShape ==
    (projected # None /\ projected.status = "ok") =>
        LET res == projected.result
            pairs == PairsFrom(kf, 1)
        IN /\ \A i \in DOMAIN pairs :
                LET g == pairs[i][1]
                    k == pairs[i][2]
                IN IF IsExtensionGroup(g)
                   THEN /\ S_Extension \in DOMAIN res
                        /\ ExtensionIdOf(g) \in DOMAIN res[S_Extension].d
                        /\ res[S_Extension].d[ExtensionIdOf(g)].t = "dict"
                        /\ k \in DOMAIN res[S_Extension].d[ExtensionIdOf(g)].d
                   ELSE /\ g \in DOMAIN res
                        /\ k \in DOMAIN res[g].d
           /\ \A top \in DOMAIN res :
                IF top = S_Extension
                THEN \A id \in DOMAIN res[top].d : IsFlat(res[top].d[id])
                ELSE IsFlat(res[top])

\* the languages of the rule table's patterns, written out
GroupLanguage(i, g) ==
    CASE i = 1 -> g = S_Context
      [] i \in 2..7 -> IsExtensionGroup(g)
      [] i = 8 -> g = S_ExtensionOf
      [] i \in 9..10 -> g \in {S_Application, S_Runtime}
      [] i = 11 -> g = S_Build

KeyLanguage(i, k) ==
    CASE i = 1 -> \A j \in DOMAIN k : k[j] # "\n"
      [] i = 2 -> k = S_autodelete
      [] i = 3 -> k = S_no_autodownload
      [] i = 4 -> k = S_subdirectories
      [] i = 5 -> k = S_locale_subset
      [] i = 6 -> k = S_versions
      [] i = 7 -> k = S_merge_dirs
      [] i = 8 -> k = S_priority
      [] i = 9 -> k = S_required_flatpak
      [] i = 10 -> k = S_tags
      [] i = 11 -> k = S_built_extensions

RuleKinds ==
    <<"list", "bool", "bool", "bool", "bool", "list", "list", "int", "list",
      "list", "list">>

FirstRuleKind(g, k) ==
    LET matching == {i \in 1..11 : GroupLanguage(i, g) /\ KeyLanguage(i, k)}
    IN IF matching = {} THEN "str"
       ELSE RuleKinds[CHOOSE i \in matching : \A j \in matching : i <= j]

\* C6: get_value reads the value with the accessor of the kind of the first
\* rule whose patterns match the whole group name and the whole key, and
\* with the string accessor when no rule does.
C6_FirstFullMatchDecidesKind ==
    lastValue.t = "value" =>
        lastValue.value.kind = FirstRuleKind(lastValue.group, lastValue.key)

\* C6 witness: a key of a group that only has a rule's group name as a
\* prefix is read as a string
C6_Witness ==
    /\ lastValue.t = "value"
    /\ lastValue.group = G_Contexts
    /\ lastValue.key = K_tagsx
    /\ lastValue.value.kind = "str"

\* C7: at most one pull is issued and none when opts.pull is false; it names
\* the formatted refs of the selected refs and /metadata, plus
\* /files/manifest.json exactly when opts.get_manifest; it has completed
\* before any commit root is resolved; no read is issued twice.
C7_OnePullBeforeReads ==
    /\ Len(pulls) <= 1
    /\ ~opts.pull => pulls = <<>>
    /\ pulls # <<>> =>
          /\ pulls[1].refs = [i \in DOMAIN refs |-> format_ref(refs[i])]
          /\ Range(pulls[1].subdirs) =
                {"/metadata"} \cup
                (IF args.no_manifest THEN {} ELSE {"/files/manifest.json"})
          /\ Len(pulls[1].subdirs) = Cardinality(Range(pulls[1].subdirs))
    /\ (opts.pull /\ pc \in {"read_commit", "metadata", "manifest", "yield",
                             "open_output", "dump", "exit", "done"})
          => (Len(pulls) = 1 /\ pulls[1].status = "ok")
    /\ \A i \in DOMAIN reads :
          /\ reads[i].commit <= 1
          /\ reads[i].metadata <= 1
          /\ reads[i].manifest <= 1
          /\ (reads[i].commit > 0 /\ opts.pull)
                => (Len(pulls) = 1 /\ pulls[1].status = "ok")

\* C7 witness: a completed run that pulled once, without the manifest, and
\* read two refs
C7_Witness ==
    /\ pc = "done"
    /\ Len(pulls) = 1
    /\ args.no_manifest
    /\ Len(result) = 2
    /\ reads[2].commit = 1

\* C8: an entry's metadata is null when opts.get_metadata is false, else
\* parsed from the local /metadata file when the root was resolved and from
\* the embedded bytes exactly when resolution failed with "not found"; any
\* other resolution failure ends the run with no fallback and no entry.
C8_MetadataSource ==
    /\ \A k \in DOMAIN result :
          IF args.no_metadata THEN result[k].metadata = None
          ELSE /\ reads[k].root \in {"ok", "NOT_FOUND"}
               /\ result[k].metadata =
                     [t |-> "KeyFile",
                      src |-> IF reads[k].root = "ok" THEN "local"
                              ELSE "embedded",
                      ref |-> format_ref(refs[k])]
               /\ reads[k].metadata = IF reads[k].root = "ok" THEN 1 ELSE 0
    /\ \A i \in DOMAIN reads :
          /\ reads[i].root = "error" =>
                /\ pc = "failed"
                /\ failure = "read_commit"
                /\ Len(result) < i
                /\ reads[i].metadata = 0
          /\ reads[i].root = "NOT_FOUND" =>
                ~(pc = "failed" /\ idx = i /\ failure = "read_commit")

\* C8 witness: the first ref is not found locally and reported from its
\* embedded metadata, the second is reported from its local file
C8_Witness ==
    /\ pc = "done"
    /\ Len(result) = 2
    /\ reads[1].root = "NOT_FOUND"
    /\ result[1].metadata # None
    /\ result[1].metadata.src = "embedded"
    /\ result[2].metadata # None
    /\ result[2].metadata.src = "local"

\* C9: an entry's manifest is non-null only if opts.get_manifest holds, the
\* root was resolved, the name is not a built extension's and the file was
\* read and parsed; a missing file gives null and the run goes on; without
\* a root the file is never read; another read or parse failure ends the run.
C9_ManifestOnlyFromLocalRoot ==
    /\ \A k \in DOMAIN result :
          /\ result[k].manifest # None =>
                /\ ~args.no_manifest
                /\ reads[k].root = "ok"
                /\ refs[k].name \notin BuiltNames
                /\ reads[k].mf = "object"
                /\ result[k].manifest = [t |-> "json", ref |-> result[k].ref]
          /\ reads[k].mf = "NOT_FOUND" => result[k].manifest = None
    /\ \A i \in DOMAIN reads :
          /\ reads[i].mf = "NOT_FOUND" =>
                ~(pc = "failed" /\ idx = i /\ failure \in {"manifest", "json"})
          /\ reads[i].root # "ok" => reads[i].manifest = 0
          /\ reads[i].mf \in {"error", "parse_error"} =>
                /\ pc = "failed"
                /\ failure \in {"manifest", "json"}
                /\ Len(result) < i

\* C9 witness: the first ref has no manifest file, the run goes on and the
\* second ref's manifest is reported
C9_Witness ==
    /\ pc = "done"
    /\ Len(result) = 2
    /\ reads[1].mf = "NOT_FOUND"
    /\ result[1].manifest = None
    /\ result[2].manifest # None

\* C10: no stream opened by a file load is left unclosed once the load has
\* returned or raised.
C10_NoStreamLeftOpen ==
    streams.opened = streams.closed


====
